---- MODULE Spec2Model ----
(***************************************************************************)
(* Model of the command-line entry points tools/train.py (check_and_init,  *)
(* main) and tools/infer.py (run).                                         *)
(*                                                                         *)
(* train.py: a launch is a set of processes started from one command line; *)
(* each process runs main(args) with its own LOCAL_RANK / RANK /           *)
(* WORLD_SIZE environment.  The processes share the file system, in which  *)
(* the run directories output_dir/name, output_dir/name1, ... live.  Run   *)
(* directory d is written d; the checkpoint file of run directory d is     *)
(* d/weights/last_ckpt.pt and its parent's parent is d.                    *)
(*                                                                         *)
(* infer.py: run() creates the directories it saves into and then calls    *)
(* Inferer.infer.                                                          *)
(***************************************************************************)
EXTENDS Integers, Sequences, FiniteSets, TLC

---------------------------------------------------------------------------
(* Bounds of the model *)

\* processes of the largest distributed launch
MaxWorld == 2
\* run directory names output_dir/name, name1, ... that increment_name tries
MaxDirs == 2
\* launches made one after the other on the same file system
MaxLaunches == 2

---------------------------------------------------------------------------
(* Values *)

Dirs == 0 .. (MaxDirs - 1)

\* args.save_dir before it is assigned (the parser defines no such option)
NoDir == -1
\* the empty path '' that a checkpoint search without a hit returns
EmptyPath == -1
\* --resume absent (default=False) and --resume without a value (const=True)
ResumeFalse == -3
ResumeTrue == -2
\* --height / --width absent (default=None)
NoSize == 0
\* args.rank before main assigns it (the parser defines no such option)
NoRank == -2
\* args.world_size before main assigns it
NoWorld == 0

Stride == 32
Floor == 256
DefaultImgSize == 640

\* image sizes given on the command line
Sizes == {100, 640}

\* --img-size, --specific-shape, --height, --width as parsed
ShapeOpts ==
    {[specific_shape |-> FALSE, img_size |-> s, height |-> NoSize, width |-> NoSize] :
        s \in Sizes}
    \cup
    {[specific_shape |-> TRUE, img_size |-> DefaultImgSize, height |-> s,
      width |-> DefaultImgSize] : s \in Sizes \ {DefaultImgSize}}

\* --resume as parsed: False, True, or the path of a checkpoint file
ResumeOpts == {ResumeFalse, ResumeTrue} \cup Dirs

\* the namespace that get_args_parser().parse_args() returns
ParsedArgs ==
    {[resume |-> r, specific_shape |-> sh.specific_shape, img_size |-> sh.img_size,
      height |-> sh.height, width |-> sh.width, quant |-> q, calib |-> c,
      local_rank |-> -1, rank |-> NoRank, world_size |-> NoWorld, save_dir |-> NoDir] :
        r \in ResumeOpts, sh \in ShapeOpts, q \in BOOLEAN, c \in BOOLEAN}

\* the environments of the processes of one launch: a plain `python train.py`
\* (no LOCAL_RANK / RANK / WORLD_SIZE set), or a distributed launch of w
\* processes, either all on one node (n = w) or one per node (n = 1)
Launches ==
    {[p \in {0} |-> [local_rank |-> -1, rank |-> -1, world_size |-> 1]]}
    \cup
    UNION {{[p \in 0 .. (w - 1) |-> [local_rank |-> p % n, rank |-> p, world_size |-> w]] :
                n \in {1, w}} : w \in 1 .. MaxWorld}

NoFile == [resume |-> ResumeFalse, specific_shape |-> FALSE, img_size |-> NoSize,
           height |-> NoSize, width |-> NoSize, quant |-> FALSE, calib |-> FALSE,
           local_rank |-> -1, rank |-> NoRank, world_size |-> NoWorld, save_dir |-> NoDir]

\* a run directory that does not exist
Absent == [exists |-> FALSE, hasYaml |-> FALSE, yaml |-> NoFile, ckpt |-> FALSE]

VARIABLES
    fs,         \* file system: run directory -> its state
    launch,     \* number of launches started so far
    env,        \* environment of each process of the current launch
    cli,        \* namespace parsed from the command line of the current launch
    args,       \* process -> the args namespace main holds
    pc,         \* process -> position in main / check_and_init
    master,     \* process -> local variable master_process of check_and_init
    steps,      \* process -> the setup steps performed so far, in order
    made,       \* process -> the directory it created with os.makedirs
    wrote,      \* process -> the directory it wrote args.yaml into
    group,      \* processes that are members of the process group
    pgArgs,     \* process -> rank, world_size passed to init_process_group
    trainer,    \* process -> the args the Trainer was constructed with
    checkpoint_path, \* process -> local variable checkpoint_path of check_and_init
    loaded      \* process -> what yaml.safe_load returned for args.yaml

\* the state of tools/train.py
tvars == <<fs, launch, env, cli, args, pc, master, steps, made, wrote, group, pgArgs,
           trainer, checkpoint_path, loaded>>

VARIABLES
    ifs,        \* infer.py: path -> what is there
    iargs,      \* infer.py: the arguments of run()
    ipc,        \* infer.py: position in run()
    save_dir,   \* infer.py: local variable save_dir of run()
    save_txt_path, \* infer.py: local variable save_txt_path of run()
    icreated    \* infer.py: the directories run() created

\* the state of tools/infer.py
ivars == <<ifs, iargs, ipc, save_dir, save_txt_path, icreated>>

vars == <<tvars, ivars>>

Running == DOMAIN env

---------------------------------------------------------------------------
(* Functions the entry points call *)

\* get_envs(): LOCAL_RANK, RANK, WORLD_SIZE of the calling process
get_envs(p) == env[p]

\* os.path.exists of run directory d
exists(f, d) == d \in Dirs /\ f[d].exists

\* os.path.isfile(checkpoint_path)
isfile(f, path) == path \in Dirs /\ f[path].ckpt

\* osp.exists(resume_opt_file_path): args.yaml in the checkpoint's parent's parent
has_args_yaml(f, path) == path \in Dirs /\ f[path].hasYaml

\* find_latest_checkpoint(): the most recently modified checkpoint found, or ''
\* when there is none; modification times are not modelled, so any of the
\* checkpoints present may be the latest
find_latest_checkpoint(f) ==
    IF \E d \in Dirs : f[d].ckpt THEN {d \in Dirs : f[d].ckpt} ELSE {EmptyPath}

\* increment_name(osp.join(output_dir, name)): the path itself when nothing is
\* there, otherwise the first of name1, name2, ... that does not exist (the last
\* one tried when all of them exist)
increment_name(f) ==
    IF ~f[0].exists THEN 0
    ELSE IF \E n \in Dirs : n >= 1 /\ ~f[n].exists
         THEN CHOOSE n \in Dirs : /\ n >= 1 /\ ~f[n].exists
                                  /\ \A m \in Dirs : (m >= 1 /\ ~f[m].exists) => n <= m
         ELSE MaxDirs - 1

\* check_img_size(x, 32, floor=256): x rounded up to a multiple of the stride,
\* and at least the floor
check_img_size(x) ==
    LET up == ((x + Stride - 1) \div Stride) * Stride
    IN  IF up >= Floor THEN up ELSE Floor

\* master_process = args.rank == 0 if args.world_size > 1 else args.rank == -1
master_process(a) == IF a.world_size > 1 THEN a.rank = 0 ELSE a.rank = -1

\* isinstance(args.resume, str)
is_str(r) == r >= EmptyPath

\* `if args.resume:` -- False and the empty string are falsy
truthy(r) == r # ResumeFalse /\ r # EmptyPath

\* the checkpoint paths line 87 can resolve to
checkpoint_paths(f, a) ==
    IF is_str(a.resume) THEN {a.resume} ELSE find_latest_checkpoint(f)

AssertionSkipped(f, c) == FALSE
\* line 88: the assertion fails when the checkpoint path is no file
assertion_fails(f, c) == ~isfile(f, c)

Log(p, what) == [steps EXCEPT ![p] = Append(@, what)]
Goto(p, where) == [pc EXCEPT ![p] = where]

---------------------------------------------------------------------------
(* tools/train.py *)

NotReloaded(p, a) == a
\* the args main holds after line 134
ReloadedArgs(p, a) ==
    [a EXCEPT !.local_rank = get_envs(p).local_rank,
              !.rank = get_envs(p).rank,
              !.world_size = get_envs(p).world_size]

(* main, line 131: args.local_rank, args.rank, args.world_size = get_envs() *)
MainGetEnvs(p) ==
    /\ pc[p] = "start"
    /\ args' = [args EXCEPT ![p] = [@ EXCEPT !.local_rank = get_envs(p).local_rank,
                                             !.rank = get_envs(p).rank,
                                             !.world_size = get_envs(p).world_size]]
    /\ pc' = Goto(p, "check")
    /\ steps' = Log(p, "get_envs")
    /\ UNCHANGED <<fs, launch, env, cli, master, made, wrote, group, pgArgs, trainer,
                   checkpoint_path, loaded, ivars>>

ResumedArgsNoSaveDir(f, a, c) ==
    LET opt == IF has_args_yaml(f, c) THEN f[c].yaml ELSE a
    IN  [opt EXCEPT !.resume = c]
ResumedArgsKeepsCli(f, a, c) == [a EXCEPT !.save_dir = c, !.resume = c]
\* the args check_and_init holds after lines 90-99, resuming from checkpoint c
ResumedArgs(f, a, c) ==
    LET opt == IF has_args_yaml(f, c) THEN f[c].yaml ELSE [a EXCEPT !.save_dir = c]
    IN  [opt EXCEPT !.resume = c]

(* check_and_init, lines 84-101: master_process, then either the resume     *)
(* branch (resolve the checkpoint, assert it is a file, load args.yaml or   *)
(* warn that there is none) or the assignment of a fresh save_dir           *)
CheckFiles(p) ==
    /\ pc[p] = "check"
    /\ master' = [master EXCEPT ![p] = master_process(args[p])]
    /\ IF truthy(args[p].resume)
       THEN \E c \in checkpoint_paths(fs, args[p]) :
                /\ checkpoint_path' = [checkpoint_path EXCEPT ![p] = c]
                /\ IF assertion_fails(fs, c)
                   THEN /\ pc' = Goto(p, "failed")
                        /\ UNCHANGED <<args, steps, loaded>>
                   ELSE /\ args' = [args EXCEPT ![p] = ResumedArgs(fs, args[p], c)]
                        /\ loaded' = [loaded EXCEPT ![p] =
                                         IF has_args_yaml(fs, c) THEN fs[c].yaml ELSE @]
                        /\ pc' = Goto(p, "imgsz")
                        /\ steps' = Log(p, IF has_args_yaml(fs, c) THEN "load_yaml"
                                                                   ELSE "warn")
       ELSE /\ args' = [args EXCEPT ![p].save_dir = increment_name(fs)]
            /\ pc' = Goto(p, IF master_process(args[p]) THEN "makedirs" ELSE "imgsz")
            /\ steps' = Log(p, "increment_name")
            /\ UNCHANGED <<checkpoint_path, loaded>>
    /\ UNCHANGED <<fs, launch, env, cli, made, wrote, group, pgArgs, trainer, ivars>>

(* check_and_init, lines 102-103: os.makedirs(args.save_dir) by the master; *)
(* it raises FileExistsError when the directory is already there            *)
MakeDirs(p) ==
    /\ pc[p] = "makedirs"
    /\ IF exists(fs, args[p].save_dir)
       THEN /\ pc' = Goto(p, "failed")
            /\ UNCHANGED <<fs, made, steps>>
       ELSE /\ fs' = [fs EXCEPT ![args[p].save_dir].exists = TRUE]
            /\ made' = [made EXCEPT ![p] = args[p].save_dir]
            /\ pc' = Goto(p, "imgsz")
            /\ steps' = Log(p, "makedirs")
    /\ UNCHANGED <<launch, env, cli, args, master, wrote, group, pgArgs, trainer,
                   checkpoint_path, loaded, ivars>>

\* lines 106-112 applied to the namespace a
ValidatedShape(a) ==
    IF a.specific_shape
    THEN [a EXCEPT !.height = check_img_size(a.height), !.width = check_img_size(a.width)]
    ELSE [a EXCEPT !.img_size = check_img_size(a.img_size)]

(* check_and_init, lines 106-112: image size validation *)
CheckShape(p) ==
    /\ pc[p] = "imgsz"
    /\ args' = [args EXCEPT ![p] = ValidatedShape(@)]
    /\ pc' = Goto(p, "config")
    /\ steps' = Log(p, "check_img_size")
    /\ UNCHANGED <<fs, launch, env, cli, master, made, wrote, group, pgArgs, trainer,
                   checkpoint_path, loaded, ivars>>

(* check_and_init, lines 114-116: cfg = Config.fromfile(args.conf_file) *)
LoadConfig(p) ==
    /\ pc[p] = "config"
    /\ pc' = Goto(p, "device")
    /\ steps' = Log(p, "Config.fromfile")
    /\ UNCHANGED <<fs, launch, env, cli, args, master, made, wrote, group, pgArgs,
                   trainer, checkpoint_path, loaded, ivars>>

(* check_and_init, line 118: device = select_device(args.device) *)
SelectDevice(p) ==
    /\ pc[p] = "device"
    /\ pc' = Goto(p, "seed")
    /\ steps' = Log(p, "select_device")
    /\ UNCHANGED <<fs, launch, env, cli, args, master, made, wrote, group, pgArgs,
                   trainer, checkpoint_path, loaded, ivars>>

(* check_and_init, line 120: set_random_seed(1 + args.rank, ...) *)
SetRandomSeed(p) ==
    /\ pc[p] = "seed"
    /\ pc' = Goto(p, "save")
    /\ steps' = Log(p, "set_random_seed")
    /\ UNCHANGED <<fs, launch, env, cli, args, master, made, wrote, group, pgArgs,
                   trainer, checkpoint_path, loaded, ivars>>

(* check_and_init, lines 122-125: the master writes vars(args) to           *)
(* save_dir/args.yaml (open() raises when save_dir is no directory), then   *)
(* the function returns                                                     *)
SaveArgs(p) ==
    /\ pc[p] = "save"
    /\ IF master[p]
       THEN IF exists(fs, args[p].save_dir)
            THEN /\ fs' = [fs EXCEPT ![args[p].save_dir].hasYaml = TRUE,
                                     ![args[p].save_dir].yaml = args[p]]
                 /\ wrote' = [wrote EXCEPT ![p] = args[p].save_dir]
                 /\ pc' = Goto(p, "reload")
                 /\ steps' = Log(p, "save_yaml")
            ELSE /\ pc' = Goto(p, "failed")
                 /\ UNCHANGED <<fs, wrote, steps>>
       ELSE /\ pc' = Goto(p, "reload")
            /\ UNCHANGED <<fs, wrote, steps>>
    /\ UNCHANGED <<launch, env, cli, args, master, made, group, pgArgs, trainer,
                   checkpoint_path, loaded, ivars>>

(* main, line 134: reload envs because args was changed in check_and_init *)
MainReloadEnvs(p) ==
    /\ pc[p] = "reload"
    /\ args' = [args EXCEPT ![p] = ReloadedArgs(p, @)]
    /\ pc' = Goto(p, "ddp")
    /\ steps' = Log(p, "get_envs")
    /\ UNCHANGED <<fs, launch, env, cli, master, made, wrote, group, pgArgs, trainer,
                   checkpoint_path, loaded, ivars>>

DdpModeNever(a) == FALSE
\* main, line 136: if args.local_rank != -1
ddp_mode(a) == a.local_rank # -1

(* main, lines 136-141: in DDP mode, dist.init_process_group(rank=          *)
(* args.local_rank, world_size=args.world_size)                             *)
InitProcessGroup(p) ==
    /\ pc[p] = "ddp"
    /\ IF ddp_mode(args[p])
       THEN /\ group' = group \cup {p}
            /\ pgArgs' = [pgArgs EXCEPT ![p] = [rank |-> args[p].local_rank,
                                               world_size |-> args[p].world_size]]
            /\ steps' = Log(p, "init_process_group")
       ELSE UNCHANGED <<group, pgArgs, steps>>
    /\ pc' = Goto(p, "trainer")
    /\ UNCHANGED <<fs, launch, env, cli, args, master, made, wrote, trainer,
                   checkpoint_path, loaded, ivars>>

(* main, line 144: trainer = Trainer(args, cfg, device) *)
ConstructTrainer(p) ==
    /\ pc[p] = "trainer"
    /\ trainer' = [trainer EXCEPT ![p] = args[p]]
    /\ pc' = Goto(p, "run")
    /\ steps' = Log(p, "Trainer")
    /\ UNCHANGED <<fs, launch, env, cli, args, master, made, wrote, group, pgArgs,
                   checkpoint_path, loaded, ivars>>

\* main, line 146: if args.quant and args.calib
ptq(a) == a.quant /\ a.calib

(* main, lines 146-148: trainer.calibrate(cfg); return *)
Calibrate(p) ==
    /\ pc[p] = "run"
    /\ ptq(args[p])
    /\ pc' = Goto(p, "done")
    /\ steps' = Log(p, "calibrate")
    /\ UNCHANGED <<fs, launch, env, cli, args, master, made, wrote, group, pgArgs,
                   trainer, checkpoint_path, loaded, ivars>>

\* the file system after trainer.train() of process p: the trainer's main
\* process (rank -1 or 0) may leave a checkpoint weights/last_ckpt.pt under the
\* save_dir it was given, creating the directories it needs
Trained(f, t, saved) ==
    IF saved /\ t.rank \in {-1, 0} /\ t.save_dir \in Dirs
    THEN [f EXCEPT ![t.save_dir].exists = TRUE, ![t.save_dir].ckpt = TRUE]
    ELSE f

(* main, line 149: trainer.train() *)
Train(p) ==
    /\ pc[p] = "run"
    /\ ~ptq(args[p])
    /\ \E saved \in BOOLEAN : fs' = Trained(fs, trainer[p], saved)
    /\ pc' = Goto(p, "end")
    /\ steps' = Log(p, "train")
    /\ UNCHANGED <<launch, env, cli, args, master, made, wrote, group, pgArgs, trainer,
                   checkpoint_path, loaded, ivars>>

\* main, line 152: if args.world_size > 1 and args.rank == 0
destroys(a) == a.world_size > 1 /\ a.rank = 0

(* main, lines 152-154: dist.destroy_process_group() on rank 0 of a         *)
(* multi-process world, then main returns                                   *)
MainEnd(p) ==
    /\ pc[p] = "end"
    /\ IF destroys(args[p])
       THEN /\ group' = group \ {p}
            /\ steps' = Log(p, "destroy_process_group")
       ELSE UNCHANGED <<group, steps>>
    /\ pc' = Goto(p, "done")
    /\ UNCHANGED <<fs, launch, env, cli, args, master, made, wrote, pgArgs, trainer,
                   checkpoint_path, loaded, ivars>>

\* every process of the launch has exited
Ended == \A p \in Running : pc[p] \in {"done", "failed"}

\* the value v for every process of a launch with environments e
Fresh(e, v) == [p \in DOMAIN e |-> v]

\* the processes of a launch with environments e and command line c, started
Started(e, c) ==
    /\ env = e
    /\ cli = c
    /\ args = Fresh(e, c)
    /\ pc = Fresh(e, "start")
    /\ master = Fresh(e, FALSE)
    /\ steps = Fresh(e, <<>>)
    /\ made = Fresh(e, NoDir)
    /\ wrote = Fresh(e, NoDir)
    /\ group = {}
    /\ pgArgs = Fresh(e, [rank |-> NoRank, world_size |-> NoWorld])
    /\ trainer = Fresh(e, NoFile)
    /\ checkpoint_path = Fresh(e, EmptyPath)
    /\ loaded = Fresh(e, NoFile)

(* a further launch, `python tools/train.py ...` or a distributed launcher, *)
(* once every process of the previous one has exited                        *)
NewLaunch ==
    /\ Ended
    /\ launch < MaxLaunches
    /\ launch' = launch + 1
    /\ \E e \in Launches, c \in ParsedArgs :
         /\ env' = e
         /\ cli' = c
         /\ args' = Fresh(e, c)
         /\ pc' = Fresh(e, "start")
         /\ master' = Fresh(e, FALSE)
         /\ steps' = Fresh(e, <<>>)
         /\ made' = Fresh(e, NoDir)
         /\ wrote' = Fresh(e, NoDir)
         /\ group' = {}
         /\ pgArgs' = Fresh(e, [rank |-> NoRank, world_size |-> NoWorld])
         /\ trainer' = Fresh(e, NoFile)
         /\ checkpoint_path' = Fresh(e, EmptyPath)
         /\ loaded' = Fresh(e, NoFile)
    /\ UNCHANGED <<fs, ivars>>

---------------------------------------------------------------------------
(* tools/infer.py *)

\* the paths run() touches: osp.join(project, name) and the --save-dir argument
IPaths == {"project/name", "--save-dir"}

\* what can be at a path: nothing, a regular file, or a directory with or
\* without a labels subdirectory
IKinds ==
    {[kind |-> k, labels |-> FALSE] : k \in {"absent", "file", "dir"}}
    \cup {[kind |-> "dir", labels |-> TRUE]}

\* save_dir, save_txt and not_save_img as passed to run()
IArgs ==
    {[save_dir |-> d, save_txt |-> t, not_save_img |-> n] :
        d \in {"None", "--save-dir"}, t \in BOOLEAN, n \in BOOLEAN}

\* osp.exists(save_dir)
iexists(f, d) == f[d].kind # "absent"

\* osp.exists(osp.join(save_dir, 'labels'))
labels_exist(f, d) == f[d].kind = "dir" /\ f[d].labels

MakesSaveDirOnlyForTxt(a, f, d) == (~a.not_save_img /\ a.save_txt) /\ ~iexists(f, d)
\* line 113: (not not_save_img or save_txt) and not osp.exists(save_dir)
makes_save_dir(a, f, d) == (~a.not_save_img \/ a.save_txt) /\ ~iexists(f, d)

(* run, lines 108-112: save_dir defaults to project/name *)
RunPaths ==
    /\ ipc = "run"
    /\ IF iargs.save_dir = "None"
       THEN /\ save_dir' = "project/name"
            /\ save_txt_path' = "labels"
       ELSE /\ save_dir' = iargs.save_dir
            /\ save_txt_path' = "save_dir"
    /\ ipc' = "mkdir"
    /\ UNCHANGED <<ifs, iargs, icreated, tvars>>

(* run, lines 113-116: os.makedirs(save_dir), or the warning *)
RunMakeSaveDir ==
    /\ ipc = "mkdir"
    /\ IF makes_save_dir(iargs, ifs, save_dir)
       THEN /\ ifs' = [ifs EXCEPT ![save_dir].kind = "dir"]
            /\ icreated' = icreated \cup {"save_dir"}
       ELSE UNCHANGED <<ifs, icreated>>
    /\ ipc' = "labels"
    /\ UNCHANGED <<iargs, save_dir, save_txt_path, tvars>>

(* run, lines 117-120: with save_txt, os.makedirs(save_dir/labels) unless it *)
(* exists; os.makedirs creates the missing parents and raises when save_dir  *)
(* is a regular file                                                         *)
RunMakeLabels ==
    /\ ipc = "labels"
    /\ IF iargs.save_txt
       THEN /\ save_txt_path' = "labels"
            /\ IF labels_exist(ifs, save_dir)
               THEN /\ ipc' = "infer"
                    /\ UNCHANGED <<ifs, icreated>>
               ELSE IF ifs[save_dir].kind = "file"
                    THEN /\ ipc' = "failed"
                         /\ UNCHANGED <<ifs, icreated>>
                    ELSE /\ ifs' = [ifs EXCEPT ![save_dir] = [kind |-> "dir", labels |-> TRUE]]
                         /\ icreated' = icreated \cup {"labels"} \cup
                                (IF iexists(ifs, save_dir) THEN {} ELSE {"save_dir"})
                         /\ ipc' = "infer"
       ELSE /\ ipc' = "infer"
            /\ UNCHANGED <<ifs, icreated, save_txt_path>>
    /\ UNCHANGED <<iargs, save_dir, tvars>>

(* run, lines 123-127: Inferer(...).infer(..., save_dir, save_txt, not not_save_img, ...) *)
RunInfer ==
    /\ ipc = "infer"
    /\ ipc' = "done"
    /\ UNCHANGED <<ifs, iargs, save_dir, save_txt_path, icreated, tvars>>

---------------------------------------------------------------------------
(* Specifications *)

\* infer.py is not running
InferIdle ==
    /\ ifs = [q \in IPaths |-> [kind |-> "absent", labels |-> FALSE]]
    /\ iargs = [save_dir |-> "None", save_txt |-> FALSE, not_save_img |-> FALSE]
    /\ ipc = "idle"
    /\ save_dir = "None"
    /\ save_txt_path = "unset"
    /\ icreated = {}

\* train.py: the first launch, on a file system without run directories
Init ==
    /\ fs = [d \in Dirs |-> Absent]
    /\ launch = 1
    /\ \E e \in Launches, c \in ParsedArgs : Started(e, c)
    /\ InferIdle

Next ==
    \/ \E p \in Running : MainGetEnvs(p)
    \/ \E p \in Running : CheckFiles(p)
    \/ \E p \in Running : MakeDirs(p)
    \/ \E p \in Running : CheckShape(p)
    \/ \E p \in Running : LoadConfig(p)
    \/ \E p \in Running : SelectDevice(p)
    \/ \E p \in Running : SetRandomSeed(p)
    \/ \E p \in Running : SaveArgs(p)
    \/ \E p \in Running : MainReloadEnvs(p)
    \/ \E p \in Running : InitProcessGroup(p)
    \/ \E p \in Running : ConstructTrainer(p)
    \/ \E p \in Running : Calibrate(p)
    \/ \E p \in Running : Train(p)
    \/ \E p \in Running : MainEnd(p)
    \/ NewLaunch

Spec == Init /\ [][Next]_vars

\* infer.py: run() called with any arguments, on any state of the two paths
InitInfer ==
    /\ ifs \in [IPaths -> IKinds]
    /\ iargs \in IArgs
    /\ ipc = "run"
    /\ save_dir = iargs.save_dir
    /\ save_txt_path = "unset"
    /\ icreated = {}
    /\ fs = [d \in Dirs |-> Absent]
    /\ launch = MaxLaunches
    /\ Started([p \in {0} |-> [local_rank |-> -1, rank |-> -1, world_size |-> 1]],
               NoFile)

NextInfer ==
    \/ RunPaths
    \/ RunMakeSaveDir
    \/ RunMakeLabels
    \/ RunInfer

SpecInfer == InitInfer /\ [][NextInfer]_vars

---------------------------------------------------------------------------
(* Properties *)

\* positions of main after check_and_init has returned
Returned == {"reload", "ddp", "trainer", "run", "end", "done"}

\* process p took the resume branch and found no args.yaml (lines 94-98)
Warned(p) == Len(steps[p]) >= 2 /\ steps[p][2] = "warn"

\* process p took the resume branch and loaded args.yaml (lines 91-93)
LoadedYaml(p) == Len(steps[p]) >= 2 /\ steps[p][2] = "load_yaml"

Did(p, what) == \E i \in 1 .. Len(steps[p]) : steps[p][i] = what

\* a step of process p out of line 88 with a checkpoint path that is no file
\* ends in the failure and changes nothing else; a failed process stays failed
C1_Step ==
    \A p \in Running :
        /\ ( /\ pc[p] = "check"
             /\ pc'[p] # "check"
             /\ truthy(args[p].resume)
             /\ ~isfile(fs, checkpoint_path'[p]) )
           => ( /\ pc'[p] = "failed"
                /\ fs' = fs
                /\ args' = args
                /\ loaded' = loaded
                /\ steps' = steps
                /\ made'[p] = NoDir
                /\ wrote'[p] = NoDir
                /\ trainer'[p] = NoFile
                /\ p \notin group' )
        /\ (pc[p] = "failed" /\ launch' = launch)
           => ( /\ pc'[p] = "failed"
                /\ trainer'[p] = trainer[p]
                /\ steps'[p] = steps[p]
                /\ p \notin group' )

(* C1: when args.resume is truthy and the resolved checkpoint path is not an  *)
(* existing file, check_and_init fails at the assertion without any side      *)
(* effect (no directory created, no args.yaml read or written, args           *)
(* unchanged), and a failed process never constructs a Trainer or joins a     *)
(* process group.                                                             *)
C1_AssertionFailsWithoutEffect == [][C1_Step]_vars

\* a process failed at the assertion, on a file system that has run directories
C1_Witness ==
    \E p \in Running :
        /\ pc[p] = "failed"
        /\ steps[p] = <<"get_envs">>
        /\ truthy(cli.resume)
        /\ ~isfile(fs, checkpoint_path[p])
        /\ \E d \in Dirs : fs[d].exists

(* C2: resuming from an existing checkpoint whose run directory has no        *)
(* args.yaml does not fail: lines 94-99 only warn, keep every command-line    *)
(* value as passed, set save_dir to the run directory and resume to the       *)
(* checkpoint path, and check_and_init goes on through the remaining setup    *)
(* steps (of which the image size validation is the one that assigns to args  *)
(* again) and returns.                                                        *)
C2_MissingYamlOnlyWarns ==
    \A p \in Running :
        Warned(p)
        => /\ pc[p] # "failed"
           /\ isfile(fs, checkpoint_path[p])
           /\ ~has_args_yaml(fs, checkpoint_path[p]) \/ wrote[p] = checkpoint_path[p]
              \/ \E q \in Running \ {p} : wrote[q] = checkpoint_path[p]
           /\ args[p].save_dir = checkpoint_path[p]
           /\ args[p].resume = checkpoint_path[p]
           /\ args[p].specific_shape = cli.specific_shape
           /\ args[p].quant = cli.quant
           /\ args[p].calib = cli.calib
           /\ ~Did(p, "check_img_size") =>
                /\ args[p].img_size = cli.img_size
                /\ args[p].height = cli.height
                /\ args[p].width = cli.width
           /\ pc[p] \in Returned =>
                /\ Did(p, "check_img_size")
                /\ Did(p, "Config.fromfile")
                /\ Did(p, "select_device")
                /\ Did(p, "set_random_seed")

\* check_and_init returned after the warning
C2_Witness ==
    \E p \in Running :
        /\ Warned(p)
        /\ pc[p] = "reload"
        /\ cli.resume = ResumeTrue
        /\ args[p].save_dir = checkpoint_path[p]

(* C3: every process that joined the process group in main has left it when   *)
(* main has returned normally.                                                *)
C3_JoinedProcessTearsDown ==
    \A p \in Running : pc[p] = "done" => p \notin group

(* C4: when check_and_init resumes from a checkpoint whose run directory has  *)
(* args.yaml, the args it returns are exactly the key/value pairs of that     *)
(* file, except resume, which is the resolved checkpoint path; the image size *)
(* validation leaves the restored values unchanged.                           *)
C4_ResumeRestoresSnapshot ==
    \A p \in Running :
        (LoadedYaml(p) /\ pc[p] \in {"imgsz", "config", "device", "seed", "save", "reload"})
        => /\ args[p] = [loaded[p] EXCEPT !.resume = checkpoint_path[p]]
           /\ loaded[p].save_dir \in Dirs
           /\ fs[loaded[p].save_dir].exists

\* check_and_init returned the snapshot although the command line said otherwise
C4_Witness ==
    \E p \in Running :
        /\ LoadedYaml(p)
        /\ pc[p] = "reload"
        /\ loaded[p].quant # cli.quant
        /\ loaded[p].specific_shape # cli.specific_shape
        /\ loaded[p].rank # env[p].rank

(* C5: in a launch whose check_and_init calls all returned, exactly one       *)
(* process is the master; it alone wrote args.yaml, into its args.save_dir,   *)
(* and in a non-resume run it alone created the save directory.               *)
C5_ExactlyOneMasterWrites ==
    (\A p \in Running : pc[p] \in Returned)
    => \E m \in Running :
          /\ master[m]
          /\ wrote[m] = args[m].save_dir
          /\ has_args_yaml(fs, args[m].save_dir)
          /\ ~truthy(cli.resume) => made[m] = args[m].save_dir
          /\ \A q \in Running \ {m} :
                ~master[q] /\ wrote[q] = NoDir /\ made[q] = NoDir

\* the steps the ordering of C6 is about
SetupSteps ==
    {"increment_name", "load_yaml", "warn", "check_img_size", "select_device",
     "set_random_seed", "init_process_group", "Trainer", "train", "calibrate"}

IsSetupStep(s) == s \in SetupSteps

StepKind(s) ==
    IF s \in {"increment_name", "load_yaml", "warn"} THEN "save_dir"
    ELSE IF s \in {"train", "calibrate"} THEN "start"
    ELSE s

\* the setup steps process p performed, in order
Performed(p) ==
    LET f == SelectSeq(steps[p], IsSetupStep)
    IN  [i \in 1 .. Len(f) |-> StepKind(f[i])]

\* the order of setup for process p
SetupOrder(p) ==
    <<"save_dir", "check_img_size", "select_device", "set_random_seed">>
    \o (IF env[p].local_rank # -1 THEN <<"init_process_group">> ELSE <<>>)
    \o <<"Trainer", "start">>

IsPrefix(a, b) == Len(a) <= Len(b) /\ \A i \in 1 .. Len(a) : a[i] = b[i]

(* C6: the setup steps of main happen in the order save directory resolved,   *)
(* image size validated, device selected, RNG seeded, process group           *)
(* initialized (exactly when local_rank != -1), Trainer constructed and       *)
(* started, none skipped or repeated; a failed process has constructed no     *)
(* Trainer.                                                                   *)
C6_SetupOrder ==
    \A p \in Running :
        /\ IsPrefix(Performed(p), SetupOrder(p))
        /\ pc[p] = "done" => Performed(p) = SetupOrder(p)
        /\ pc[p] = "failed" => ~Did(p, "Trainer")

\* a process in DDP mode has run main to its end
C6_Witness ==
    \E p \in Running :
        /\ pc[p] = "done"
        /\ env[p].local_rank # -1
        /\ Did(p, "init_process_group")
        /\ Did(p, "train")

(* C7: the args handed to Trainer carry local_rank, rank and world_size of    *)
(* the process's environment, also when check_and_init replaced args by the   *)
(* contents of an args.yaml; the process group is joined exactly when the     *)
(* environment's local_rank is not -1, with the environment's values.         *)
C7_TrainerGetsEnvironment ==
    \A p \in Running :
        /\ Did(p, "Trainer") =>
              /\ trainer[p].local_rank = env[p].local_rank
              /\ trainer[p].rank = env[p].rank
              /\ trainer[p].world_size = env[p].world_size
        /\ pc[p] \in {"trainer", "run", "end", "done"} =>
              (Did(p, "init_process_group") <=> env[p].local_rank # -1)
        /\ Did(p, "init_process_group") =>
              pgArgs[p] = [rank |-> env[p].local_rank, world_size |-> env[p].world_size]

\* a Trainer constructed after args.yaml of a process with other ranks was loaded
C7_Witness ==
    \E p \in Running :
        /\ Did(p, "Trainer")
        /\ LoadedYaml(p)
        /\ loaded[p].rank # env[p].rank
        /\ loaded[p].local_rank # env[p].local_rank
        /\ loaded[p].world_size # env[p].world_size
        /\ Did(p, "init_process_group")

C9_SameSaveDir ==
    ~truthy(cli.resume) =>
        \A p, q \in Running :
            (pc[p] \in Returned /\ pc[q] \in Returned)
            => args[p].save_dir = args[q].save_dir

====
